---- MODULE Spec2Model ----
(***************************************************************************)
(* Model of the node-zero REST client of the agent installer               *)
(* (package agent: NodeZeroRestClient).  The asset directory and the       *)
(* remote Agent Rest API are the environment: the directory's content is   *)
(* fixed in the initial state, the remote's answer is chosen when a        *)
(* request completes.  Strings whose characters matter (addresses, the     *)
(* URL host) are tuples of one-character strings.                          *)
(***************************************************************************)
EXTENDS Naturals, Sequences, FiniteSets, TLC

VARIABLES assetDir, pc, restClient, ctorErr, loaded, log, call

vars == <<assetDir, pc, restClient, ctorErr, loaded, log, call>>

\* ---------------------------------------------------------------- bounds
NumCallers == 2
MaxHosts == 2
MaxList == 2

Callers == 1..NumCallers

SeqsUpTo(S, n) == UNION {[1..k -> S] : k \in 0..n}

Range(s) == {s[i] : i \in DOMAIN s}

\* ---------------------------------------------------------------- errors
NoError == [msg |-> "", cause |-> ""]

\* errors.New(msg)
New(msg) == [msg |-> msg, cause |-> ""]

\* errors.Wrap(err, msg) / errors.Wrapf(err, format, name)
Wrap(err, msg) == [msg |-> msg, cause |-> err.msg]

StoreErrors == {New("open state file: permission denied")}

LoadErrors == {New("failed to unmarshal asset")}

TransportErrors == {New("connection refused"), New("context deadline exceeded")}

\* ---------------------------------------------------------------- values
EmptyString == <<>>

IPv4Addr == <<"1", "0", ".", "0", ".", "0", ".", "5">>

IPv6Addr == <<"f", "d", ":", ":", "5">>

IPs == {IPv4Addr, IPv6Addr}

SSHKeys == {"", "ssh-ed25519 AAAA"}

UUIDs == {"u1", "u2"}

NilUUID == "nil"

Events == {"e1", "e2"}

\* agent.Config{}: no rendezvous address pinned
EmptyConfig == [RendezvousIP |-> EmptyString]

NilAgentConfig == [nil |-> TRUE, Config |-> EmptyConfig]

NilAgentManifests == [nil |-> TRUE, NMStateConfigs |-> <<>>]

NilInstallConfig == [nil |-> TRUE, SSHKey |-> ""]

AgentConfigs == {[nil |-> FALSE, Config |-> [RendezvousIP |-> ip]] : ip \in IPs \cup {EmptyString}}

NMStateConfigs == [addr : IPs, rendezvous : BOOLEAN]

AgentManifests(maxHosts) == {[nil |-> FALSE, NMStateConfigs |-> h] : h \in SeqsUpTo(NMStateConfigs, maxHosts)}

InstallConfigs == {[nil |-> FALSE, SSHKey |-> k] : k \in SSHKeys}

\* What assetStore.Load can return for one asset: the asset, nothing (the
\* asset is not in the directory), or nothing and an error.
LoadResults(assets, nilAsset) ==
    {[asset |-> a, err |-> NoError] : a \in assets \cup {nilAsset}}
        \cup {[asset |-> nilAsset, err |-> e] : e \in LoadErrors}

AssetDirs(maxHosts) ==
    [storeErr : {NoError} \cup StoreErrors,
     AgentConfig : LoadResults(AgentConfigs, NilAgentConfig),
     AgentManifests : LoadResults(AgentManifests(maxHosts), NilAgentManifests),
     InstallConfig : LoadResults(InstallConfigs, NilInstallConfig)]

\* The directories of the client specification: no host declarations and an
\* install config with a key, so that the state space of the concurrent
\* calls stays small.
PinnedAssetDirs ==
    {d \in AssetDirs(0) : /\ d.storeErr = NoError
                          /\ d.AgentManifests = [asset |-> NilAgentManifests, err |-> NoError]
                          /\ d.InstallConfig = [asset |-> [nil |-> FALSE, SSHKey |-> "ssh-ed25519 AAAA"], err |-> NoError]}

\* ---------------------------------------------------------------- resolver
\* image.RetrieveRendezvousIP: the pinned address of the agent config if
\* there is one, else the address of the host declared as rendezvous host;
\* fails when the declarations name none or conflicting ones.
RetrieveRendezvousIP(config, nmStateConfigs) ==
    LET candidates == {nmStateConfigs[i].addr : i \in {j \in DOMAIN nmStateConfigs : nmStateConfigs[j].rendezvous}}
    IN  IF config.RendezvousIP # EmptyString
        THEN [ip |-> config.RendezvousIP, err |-> NoError]
        ELSE IF Cardinality(candidates) = 1
             THEN [ip |-> CHOOSE a \in candidates : TRUE, err |-> NoError]
             ELSE IF candidates = {}
                  THEN [ip |-> EmptyString, err |-> New("missing rendezvousIP in agent-config or NMStateConfig")]
                  ELSE [ip |-> EmptyString, err |-> New("conflicting rendezvousIP candidates")]

\* ---------------------------------------------------------------- constructor
AssetNames == <<"AgentConfig", "AgentManifests", "InstallConfig">>

\* assetStore.Load(asset)
Load(dir, name) == dir[name]

LoadFailedIgnoringInstallConfig(agentConfigError, manifestError, installConfigError) ==
    agentConfigError # NoError \/ manifestError # NoError

\* the condition of the early return after the three loads
LoadFailed(agentConfigError, manifestError, installConfigError) ==
    agentConfigError # NoError \/ manifestError # NoError \/ installConfigError # NoError

\* the Debug lines written for the failed loads, in the order of the code
LoadDebug(agentConfigError, manifestError, installConfigError) ==
    LET errs == <<agentConfigError, manifestError, installConfigError>>
        line(i) == IF errs[i] # NoError THEN <<Wrap(errs[i], AssetNames[i])>> ELSE <<>>
    IN  line(1) \o line(2) \o line(3)

ResolveRendezvousNoFallback(agentConfig, agentManifests) ==
    IF ~agentConfig.nil /\ ~agentManifests.nil
    THEN RetrieveRendezvousIP(agentConfig.Config, agentManifests.NMStateConfigs)
    ELSE [ip |-> EmptyString, err |-> New("both AgentConfig and NMStateConfig are empty")]

\* the four-way branch on the presence of the agent config and the manifests
ResolveRendezvous(agentConfig, agentManifests) ==
    IF ~agentConfig.nil /\ ~agentManifests.nil
    THEN RetrieveRendezvousIP(agentConfig.Config, agentManifests.NMStateConfigs)
    ELSE IF agentConfig.nil /\ ~agentManifests.nil
         THEN RetrieveRendezvousIP(EmptyConfig, agentManifests.NMStateConfigs)
         ELSE IF ~agentConfig.nil /\ agentManifests.nil
              THEN RetrieveRendezvousIP(agentConfig.Config, <<>>)
              ELSE [ip |-> EmptyString, err |-> New("both AgentConfig and NMStateConfig are empty")]

\* restClient.NodeSSHKey after the install config has been looked at
NodeSSHKey(installConfig) ==
    IF ~installConfig.nil THEN <<installConfig.SSHKey>> ELSE <<>>

Port == <<"8", "0", "9", "0">>

DefaultBasePath == "/api/assisted-install"

\* net.JoinHostPort(host, port)
JoinHostPort(host, port) ==
    IF \E i \in DOMAIN host : host[i] \in {":", "%"}
    THEN <<"[">> \o host \o <<"]", ":">> \o port
    ELSE host \o <<":">> \o port

NewConfigNoPort(RendezvousIP) ==
    [URL |-> [Scheme |-> "http", Host |-> RendezvousIP, Path |-> DefaultBasePath]]

\* config.URL as the constructor builds it
NewConfig(RendezvousIP) ==
    [URL |-> [Scheme |-> "http", Host |-> JoinHostPort(RendezvousIP, Port), Path |-> DefaultBasePath]]

NilURL == [Scheme |-> "", Host |-> EmptyString, Path |-> ""]

NilClient ==
    [nil |-> TRUE, Client |-> NilURL, ctx |-> "", config |-> [URL |-> NilURL],
     NodeZeroIP |-> EmptyString, NodeSSHKey |-> <<>>]

FailureWithClient(err, loads, lines) ==
    [client |-> [NilClient EXCEPT !.nil = FALSE], err |-> err, loaded |-> loads, log |-> lines]

\* a failed construction: return nil, err
Failure(err, loads, lines) ==
    [client |-> NilClient, err |-> err, loaded |-> loads, log |-> lines]

\* NewNodeZeroRestClient(ctx, assetDir): the client and the error returned,
\* the assets Load was called with and the Debug lines written
Construct(dir) ==
    LET agentConfig == Load(dir, "AgentConfig")
        agentManifests == Load(dir, "AgentManifests")
        installConfig == Load(dir, "InstallConfig")
        lines == LoadDebug(agentConfig.err, agentManifests.err, installConfig.err)
        rendezvous == ResolveRendezvous(agentConfig.asset, agentManifests.asset)
        config == NewConfig(rendezvous.ip)
    IN  IF dir.storeErr # NoError
        THEN Failure(Wrap(dir.storeErr, "failed to create asset store"), <<>>, <<>>)
        ELSE IF LoadFailed(agentConfig.err, agentManifests.err, installConfig.err)
             THEN Failure(New("failed to load AgentConfig, NMStateConfig, or InstallConfig"), AssetNames, lines)
             ELSE IF rendezvous.err # NoError
                  THEN Failure(rendezvous.err, AssetNames, lines)
                  ELSE [client |-> [nil |-> FALSE,
                                    Client |-> config.URL,
                                    ctx |-> "ctx",
                                    config |-> config,
                                    NodeZeroIP |-> rendezvous.ip,
                                    NodeSSHKey |-> NodeSSHKey(installConfig.asset)],
                        err |-> NoError, loaded |-> AssetNames, log |-> lines]

IdleCall ==
    [op |-> "none", pc |-> "idle", arg |-> NilUUID, sent |-> 0,
     err |-> NoError, payload |-> <<>>, ret |-> <<>>, retErr |-> NoError, diag |-> <<>>]

NewNodeZeroRestClient ==
    /\ pc = "start"
    /\ LET r == Construct(assetDir)
       IN  /\ restClient' = r.client
           /\ ctorErr' = r.err
           /\ loaded' = r.loaded
           /\ log' = r.log
           /\ pc' = IF r.err = NoError THEN "constructed" ELSE "failed"
    /\ UNCHANGED <<assetDir, call>>

InitState(dirs) ==
    /\ assetDir \in dirs
    /\ pc = "start"
    /\ restClient = NilClient
    /\ ctorErr = NoError
    /\ loaded = <<>>
    /\ log = <<>>
    /\ call = [c \in Callers |-> IdleCall]

\* Construction alone, over every content of the asset directory.
InitCtor == InitState(AssetDirs(MaxHosts))

NextCtor == NewNodeZeroRestClient

SpecCtor == InitCtor /\ [][NextCtor]_vars

\* ---------------------------------------------------------------- remote API
Clusters == [ID : UUIDs]

InfraEnvs == [ID : UUIDs]

\* what a request can come back with: a payload, or a transport error
Responses(items) ==
    {[err |-> NoError, payload |-> p] : p \in SeqsUpTo(items, MaxList)}
        \cup {[err |-> e, payload |-> <<>>] : e \in TransportErrors}

Debug(msg) == [level |-> "debug", msg |-> msg, args |-> <<>>]

Infof(msg, n) == [level |-> "info", msg |-> msg, args |-> <<n>>]

\* a caller enters a method and its request goes out
Request(c, op, arg) ==
    /\ pc = "constructed"
    /\ call[c].pc # "waiting"
    /\ call' = [call EXCEPT ![c] = [IdleCall EXCEPT !.op = op, !.pc = "waiting", !.arg = arg, !.sent = 1]]
    /\ UNCHANGED <<assetDir, pc, restClient, ctorErr, loaded, log>>

ReturnMarkingClient(c, err, payload, ret, retErr, diag) ==
    /\ call' = [call EXCEPT ![c] = [@ EXCEPT !.pc = "returned", !.arg = NilUUID, !.err = err, !.payload = payload,
                                               !.ret = ret, !.retErr = retErr, !.diag = diag]]
    /\ restClient' = [restClient EXCEPT !.NodeZeroIP = IF err # NoError THEN EmptyString ELSE @]
    /\ UNCHANGED <<assetDir, pc, ctorErr, loaded, log>>

\* the request of caller c comes back and the method returns; the
\* parameters of the request go out of scope
Return(c, err, payload, ret, retErr, diag) ==
    /\ call' = [call EXCEPT ![c] = [@ EXCEPT !.pc = "returned", !.arg = NilUUID, !.err = err, !.payload = payload,
                                               !.ret = ret, !.retErr = retErr, !.diag = diag]]
    /\ UNCHANGED <<assetDir, pc, restClient, ctorErr, loaded, log>>

Waiting(c, op) == pc = "constructed" /\ call[c].pc = "waiting" /\ call[c].op = op

\* ---- IsRestAPILive
IsRestAPILiveAlways(err) == TRUE

IsRestAPILiveResult(err) == IF err # NoError THEN FALSE ELSE TRUE

IsRestAPILive(c) == Request(c, "IsRestAPILive", NilUUID)

\* the payload of the listing is dropped: only its error is bound
IsRestAPILiveDone(c) ==
    /\ Waiting(c, "IsRestAPILive")
    /\ \E r \in Responses(InfraEnvs) :
          Return(c, r.err, <<>>, IsRestAPILiveResult(r.err), NoError, <<>>)

\* ---- GetRestAPIServiceBaseURL
GetRestAPIServiceBaseURLResult(rest) == rest.config.URL

GetRestAPIServiceBaseURL(c) ==
    /\ pc = "constructed"
    /\ call[c].pc # "waiting"
    /\ call' = [call EXCEPT ![c] = [IdleCall EXCEPT !.op = "GetRestAPIServiceBaseURL", !.pc = "returned",
                                                    !.ret = GetRestAPIServiceBaseURLResult(restClient)]]
    /\ UNCHANGED <<assetDir, pc, restClient, ctorErr, loaded, log>>

\* ---- GetInfraEnvEvents
GetInfraEnvEventsWrapped(err, payload) ==
    IF err # NoError
    THEN [ret |-> <<>>, err |-> Wrap(err, "failed to list events")]
    ELSE [ret |-> payload, err |-> NoError]

GetInfraEnvEventsResult(err, payload) ==
    IF err # NoError
    THEN [ret |-> <<>>, err |-> err]
    ELSE [ret |-> payload, err |-> NoError]

GetInfraEnvEvents(c) == \E infraEnvID \in UUIDs : Request(c, "GetInfraEnvEvents", infraEnvID)

GetInfraEnvEventsDone(c) ==
    /\ Waiting(c, "GetInfraEnvEvents")
    /\ \E r \in Responses(Events) :
          LET res == GetInfraEnvEventsResult(r.err, r.payload)
          IN  Return(c, r.err, r.payload, res.ret, res.err, <<>>)

\* ---- getClusterID
getClusterIDFirstResult(err, clusterList) ==
    IF err # NoError
    THEN [ret |-> NilUUID, err |-> err, diag |-> <<>>]
    ELSE IF Len(clusterList) >= 1
         THEN [ret |-> clusterList[1].ID, err |-> NoError, diag |-> <<>>]
         ELSE [ret |-> NilUUID, err |-> NoError,
               diag |-> <<Debug("cluster is not registered in rest API")>>]

getClusterIDSwallowingError(err, clusterList) ==
    IF err # NoError \/ Len(clusterList) = 0
    THEN [ret |-> NilUUID, err |-> NoError,
          diag |-> <<Debug("cluster is not registered in rest API")>>]
    ELSE IF Len(clusterList) = 1
         THEN [ret |-> clusterList[1].ID, err |-> NoError, diag |-> <<>>]
         ELSE [ret |-> NilUUID, err |-> NoError,
               diag |-> <<Infof("found too many clusters. number of clusters found: %d", Len(clusterList))>>]

getClusterIDResult(err, clusterList) ==
    IF err # NoError
    THEN [ret |-> NilUUID, err |-> err, diag |-> <<>>]
    ELSE IF Len(clusterList) = 1
         THEN [ret |-> clusterList[1].ID, err |-> NoError, diag |-> <<>>]
         ELSE IF Len(clusterList) = 0
              THEN [ret |-> NilUUID, err |-> NoError,
                    diag |-> <<Debug("cluster is not registered in rest API")>>]
              ELSE [ret |-> NilUUID, err |-> NoError,
                    diag |-> <<Infof("found too many clusters. number of clusters found: %d", Len(clusterList))>>]

getClusterID(c) == Request(c, "getClusterID", NilUUID)

getClusterIDDone(c) ==
    /\ Waiting(c, "getClusterID")
    /\ \E r \in Responses(Clusters) :
          LET res == getClusterIDResult(r.err, r.payload)
          IN  Return(c, r.err, r.payload, res.ret, res.err, res.diag)

\* ---- getClusterInfraEnvID
getClusterInfraEnvIDFirstResult(err, infraEnvList) ==
    IF err # NoError
    THEN [ret |-> NilUUID, err |-> err, diag |-> <<>>]
    ELSE IF Len(infraEnvList) >= 1
         THEN [ret |-> infraEnvList[1].ID, err |-> NoError, diag |-> <<>>]
         ELSE [ret |-> NilUUID, err |-> NoError,
               diag |-> <<Debug("infraenv is not registered in rest API")>>]

getClusterInfraEnvIDResult(err, infraEnvList) ==
    IF err # NoError
    THEN [ret |-> NilUUID, err |-> err, diag |-> <<>>]
    ELSE IF Len(infraEnvList) = 1
         THEN [ret |-> infraEnvList[1].ID, err |-> NoError, diag |-> <<>>]
         ELSE IF Len(infraEnvList) = 0
              THEN [ret |-> NilUUID, err |-> NoError,
                    diag |-> <<Debug("infraenv is not registered in rest API")>>]
              ELSE [ret |-> NilUUID, err |-> NoError,
                    diag |-> <<Infof("found too many infraenvs. number of infraenvs found: %d", Len(infraEnvList))>>]

getClusterInfraEnvID(c) == Request(c, "getClusterInfraEnvID", NilUUID)

getClusterInfraEnvIDDone(c) ==
    /\ Waiting(c, "getClusterInfraEnvID")
    /\ \E r \in Responses(InfraEnvs) :
          LET res == getClusterInfraEnvIDResult(r.err, r.payload)
          IN  Return(c, r.err, r.payload, res.ret, res.err, res.diag)

\* ---------------------------------------------------------------- client specification
Init == InitState(PinnedAssetDirs)

Next ==
    \/ NewNodeZeroRestClient
    \/ \E c \in Callers : IsRestAPILive(c)
    \/ \E c \in Callers : IsRestAPILiveDone(c)
    \/ \E c \in Callers : GetRestAPIServiceBaseURL(c)
    \/ \E c \in Callers : GetInfraEnvEvents(c)
    \/ \E c \in Callers : GetInfraEnvEventsDone(c)
    \/ \E c \in Callers : getClusterID(c)
    \/ \E c \in Callers : getClusterIDDone(c)
    \/ \E c \in Callers : getClusterInfraEnvID(c)
    \/ \E c \in Callers : getClusterInfraEnvIDDone(c)

Spec == Init /\ [][Next]_vars

\* ================================================================ properties
\* ---- construction (SpecCtor)
StoreOpened == assetDir.storeErr = NoError

AgentConfigPresent == ~assetDir.AgentConfig.asset.nil

HostsPresent == ~assetDir.AgentManifests.asset.nil

InstallConfigPresent == ~assetDir.InstallConfig.asset.nil

LoadErrorAt == {n \in Range(AssetNames) : assetDir[n].err # NoError}

\* the resolver's answer for what the directory holds, an absent input
\* replaced by an empty one
Resolved ==
    RetrieveRendezvousIP(assetDir.AgentConfig.asset.Config, assetDir.AgentManifests.asset.NMStateConfigs)

ConfigurationMissing == New("both AgentConfig and NMStateConfig are empty")

LoadFailure == New("failed to load AgentConfig, NMStateConfig, or InstallConfig")

\* C1 as stated: with the store open and the three loads returning without
\* error, construction succeeds if and only if the agent config or the host
\* declarations are present.
C1_SucceedsIffPresent ==
    (pc # "start" /\ StoreOpened /\ LoadErrorAt = {})
        => ((ctorErr = NoError) <=> (AgentConfigPresent \/ HostsPresent))

\* C1 amended: with the store open and the three loads returning without
\* error, construction succeeds only if the agent config or the host
\* declarations are present; when one is present it returns what the
\* resolver returns for the inputs present: its error, or a client bound to
\* exactly one address; when both are absent it fails with the
\* configuration-missing error whatever the install config.
C1_Resolution ==
    (pc # "start" /\ StoreOpened /\ LoadErrorAt = {})
        => /\ ctorErr = NoError => (AgentConfigPresent \/ HostsPresent)
           /\ (~AgentConfigPresent /\ ~HostsPresent) => (ctorErr = ConfigurationMissing /\ restClient.nil)
           /\ (AgentConfigPresent \/ HostsPresent)
                => /\ ctorErr = Resolved.err
                   /\ Resolved.err = NoError
                        => (~restClient.nil /\ restClient.NodeZeroIP = Resolved.ip /\ restClient.NodeZeroIP \in IPs)

\* the agent config is absent and the address comes from two host
\* declarations, one of them the rendezvous host
C1_Witness ==
    /\ pc = "constructed"
    /\ ~AgentConfigPresent
    /\ HostsPresent
    /\ Len(assetDir.AgentManifests.asset.NMStateConfigs) = 2
    /\ restClient.NodeZeroIP = IPv4Addr

\* C2 as stated: the three loads are attempted and no load failure aborts
\* construction, which succeeds whenever the agent config or the host
\* declarations were loaded and resolve to an address.
C2_LoadFailureTolerated ==
    (pc # "start" /\ StoreOpened /\ (AgentConfigPresent \/ HostsPresent) /\ Resolved.err = NoError)
        => (loaded = AssetNames /\ ctorErr = NoError)

\* C2 amended: once the store is open the three loads are attempted
\* whatever their outcomes; an asset that is absent (loaded as nil without
\* error) is tolerated, construction succeeding whenever the agent config or
\* the host declarations are present and resolve, with the SSH key of the
\* install config captured if present; a load error of any of the three
\* aborts construction with the load-failure error after one debug line per
\* failed load.
C2_LoadsAttempted ==
    (pc # "start" /\ StoreOpened)
        => /\ loaded = AssetNames
           /\ LoadErrorAt # {}
                => (ctorErr = LoadFailure /\ restClient.nil /\ Len(log) = Cardinality(LoadErrorAt))
           /\ (LoadErrorAt = {} /\ (AgentConfigPresent \/ HostsPresent) /\ Resolved.err = NoError)
                => /\ ctorErr = NoError
                   /\ ~restClient.nil
                   /\ log = <<>>
                   /\ restClient.NodeSSHKey =
                        IF InstallConfigPresent THEN <<assetDir.InstallConfig.asset.SSHKey>> ELSE <<>>

\* only the install config fails to load, the agent config pins an address
C2_Witness ==
    /\ pc = "failed"
    /\ LoadErrorAt = {"InstallConfig"}
    /\ AgentConfigPresent
    /\ Resolved.err = NoError
    /\ loaded = AssetNames

\* C3: a failed construction returns no client and the error of the stage
\* that failed (store creation, asset load, missing configuration, the
\* resolver's own error); a client is returned only without an error.
C3_FailureAborts ==
    pc # "start"
        => /\ (pc = "failed") <=> (ctorErr # NoError)
           /\ ctorErr # NoError => restClient = NilClient
           /\ ctorErr = NoError => ~restClient.nil
           /\ ~StoreOpened => (ctorErr = Wrap(assetDir.storeErr, "failed to create asset store") /\ loaded = <<>>)
           /\ ctorErr.msg = "failed to create asset store" => ~StoreOpened
           /\ (StoreOpened /\ LoadErrorAt # {}) => ctorErr = LoadFailure
           /\ ctorErr = LoadFailure => (StoreOpened /\ LoadErrorAt # {})
           /\ ctorErr = ConfigurationMissing
                => (StoreOpened /\ LoadErrorAt = {} /\ ~AgentConfigPresent /\ ~HostsPresent)
           /\ (ctorErr # NoError /\ StoreOpened /\ LoadErrorAt = {} /\ (AgentConfigPresent \/ HostsPresent))
                => (ctorErr = Resolved.err /\ ctorErr # ConfigurationMissing)

\* the store cannot be created although every asset could be loaded
C3_Witness ==
    /\ pc = "failed"
    /\ ~StoreOpened
    /\ LoadErrorAt = {}
    /\ AgentConfigPresent
    /\ restClient = NilClient

\* ---- calls on a constructed client (Spec)
Returned(c, op) == call[c].pc = "returned" /\ call[c].op = op

\* C4: IsRestAPILive returns true exactly when its listing request came
\* back without error and false on any error, raises nothing, and has sent
\* exactly one request.
C4_LivenessProbe ==
    \A c \in Callers :
        /\ Returned(c, "IsRestAPILive")
             => /\ call[c].ret \in BOOLEAN
                /\ call[c].ret <=> (call[c].err = NoError)
                /\ call[c].retErr = NoError
                /\ call[c].sent = 1
        /\ (call[c].pc = "waiting" /\ call[c].op = "IsRestAPILive") => call[c].sent = 1

\* one probe failed on a transport error, another succeeded
C4_Witness ==
    \E c, d \in Callers :
        /\ Returned(c, "IsRestAPILive") /\ call[c].err \in TransportErrors /\ call[c].ret = FALSE
        /\ Returned(d, "IsRestAPILive") /\ call[d].err = NoError /\ call[d].ret = TRUE

\* C5 as stated: on a listing of n clusters getClusterID returns the single
\* identifier if n = 1 and (nil, nil) otherwise, and writes a diagnostic
\* only if n >= 2.
C5_DiagnosticOnlyForMany ==
    \A c \in Callers :
        (Returned(c, "getClusterID") /\ call[c].err = NoError)
            => LET n == Len(call[c].payload)
               IN  /\ call[c].retErr = NoError
                   /\ call[c].ret = IF n = 1 THEN call[c].payload[1].ID ELSE NilUUID
                   /\ (call[c].diag # <<>>) <=> (n >= 2)

\* C5 amended: on a listing of n clusters getClusterID returns the single
\* identifier if n = 1 and (nil, nil) otherwise; it writes one info line
\* citing n if n >= 2, one debug line without a count if n = 0, and nothing
\* if n = 1.
C5_ClusterLookup ==
    \A c \in Callers :
        (Returned(c, "getClusterID") /\ call[c].err = NoError)
            => LET n == Len(call[c].payload)
               IN  /\ call[c].retErr = NoError
                   /\ call[c].ret = IF n = 1 THEN call[c].payload[1].ID ELSE NilUUID
                   /\ n = 1 => (call[c].diag = <<>> /\ call[c].ret \in UUIDs)
                   /\ n = 0 => (Len(call[c].diag) = 1 /\ call[c].diag[1].level = "debug" /\ call[c].diag[1].args = <<>>)
                   /\ n >= 2 => (Len(call[c].diag) = 1 /\ call[c].diag[1].level = "info" /\ call[c].diag[1].args = <<n>>)

\* one lookup saw two clusters, another saw none
C5_Witness ==
    \E c, d \in Callers :
        /\ Returned(c, "getClusterID") /\ call[c].err = NoError /\ Len(call[c].payload) = 2
        /\ Returned(d, "getClusterID") /\ call[d].err = NoError /\ Len(call[d].payload) = 0

\* C6: on a listing of n infra-environments getClusterInfraEnvID returns the
\* single identifier if n = 1 and (nil, nil) otherwise, whatever the other
\* callers are doing or have been returned.
C6_InfraEnvLookup ==
    \A c \in Callers :
        (Returned(c, "getClusterInfraEnvID") /\ call[c].err = NoError)
            => LET n == Len(call[c].payload)
               IN  /\ call[c].retErr = NoError
                   /\ call[c].ret = IF n = 1 THEN call[c].payload[1].ID ELSE NilUUID
                   /\ n = 1 => call[c].ret \in UUIDs

\* the infra-environment is resolved while a cluster lookup saw two
\* clusters, and unresolved on two entries while a cluster lookup is resolved
C6_Witness ==
    \E c, d \in Callers :
        /\ Returned(c, "getClusterInfraEnvID") /\ call[c].err = NoError
        /\ Len(call[c].payload) = 2 /\ call[c].ret = NilUUID
        /\ Returned(d, "getClusterID") /\ call[d].ret \in UUIDs

\* C7: GetInfraEnvEvents returns the error of its request as it is, with no
\* payload, when the request fails, and the payload as it is, with no error,
\* when it succeeds; it has sent exactly one request.
C7_EventRetrieval ==
    \A c \in Callers :
        Returned(c, "GetInfraEnvEvents")
            => /\ call[c].sent = 1
               /\ call[c].err # NoError => (call[c].retErr = call[c].err /\ call[c].ret = <<>>)
               /\ call[c].err = NoError => (call[c].retErr = NoError /\ call[c].ret = call[c].payload)

\* one retrieval failed, another returned two events in the remote's order
C7_Witness ==
    \E c, d \in Callers :
        /\ Returned(c, "GetInfraEnvEvents") /\ call[c].retErr \in TransportErrors
        /\ Returned(d, "GetInfraEnvEvents") /\ call[d].ret = <<"e2", "e1">>

\* net/url: the host and the port of a URL's Host field (URL.Hostname, URL.Port)
Digits == {"0", "1", "2", "3", "4", "5", "6", "7", "8", "9"}

SplitHostPort(hostPort) ==
    LET colons == {i \in DOMAIN hostPort : hostPort[i] = ":"}
        colon == IF colons = {} THEN 0 ELSE CHOOSE i \in colons : \A j \in colons : j <= i
        valid == colon # 0 /\ \A i \in (colon + 1)..Len(hostPort) : hostPort[i] \in Digits
        host == IF valid THEN SubSeq(hostPort, 1, colon - 1) ELSE hostPort
        port == IF valid THEN SubSeq(hostPort, colon + 1, Len(hostPort)) ELSE <<>>
    IN  [host |-> IF Len(host) >= 2 /\ host[1] = "[" /\ host[Len(host)] = "]"
                  THEN SubSeq(host, 2, Len(host) - 1)
                  ELSE host,
         port |-> port]

\* C8: on a constructed client the endpoint is http, the rendezvous address
\* resolved at construction, port 8090 and the fixed base path, and every
\* GetRestAPIServiceBaseURL returns it without a request.
C8_Endpoint ==
    pc = "constructed"
        => /\ restClient.NodeZeroIP = ResolveRendezvous(assetDir.AgentConfig.asset, assetDir.AgentManifests.asset).ip
           /\ restClient.config.URL.Scheme = "http"
           /\ SplitHostPort(restClient.config.URL.Host).host = restClient.NodeZeroIP
           /\ SplitHostPort(restClient.config.URL.Host).port = <<"8", "0", "9", "0">>
           /\ restClient.config.URL.Path = "/api/assisted-install"
           /\ \A c \in Callers :
                Returned(c, "GetRestAPIServiceBaseURL")
                    => (call[c].ret = restClient.config.URL /\ call[c].sent = 0 /\ call[c].retErr = NoError)

\* the accessor has returned to one caller after another caller's failed
\* request, on a client bound to an IPv6 address
C8_Witness ==
    /\ pc = "constructed"
    /\ restClient.NodeZeroIP = IPv6Addr
    /\ \E c, d \in Callers :
        /\ Returned(c, "GetRestAPIServiceBaseURL")
        /\ call[d].pc = "returned" /\ call[d].err \in TransportErrors

\* C9: once the client is constructed no step changes any of its fields,
\* and a step changes the call of at most one caller.
C9_ClientImmutable ==
    [][pc = "constructed"
        => /\ restClient' = restClient
           /\ \A c, d \in Callers : (call'[c] # call[c] /\ call'[d] # call[d]) => c = d]_vars

\* a call has failed while another caller's request is in flight
C9_Witness ==
    \E c, d \in Callers :
        /\ call[c].pc = "returned" /\ call[c].err \in TransportErrors
        /\ call[d].pc = "waiting"
        /\ ~restClient.nil

\* C10: when the listing fails the two lookups return (nil, that error),
\* write nothing and have sent one request; an error never comes with an
\* identifier, and the outcomes error, unresolved and resolved exclude each
\* other.
C10_LookupError ==
    \A c \in Callers :
        (Returned(c, "getClusterID") \/ Returned(c, "getClusterInfraEnvID"))
            => /\ call[c].sent = 1
               /\ call[c].err # NoError
                    => (call[c].ret = NilUUID /\ call[c].retErr = call[c].err /\ call[c].diag = <<>>)
               /\ call[c].retErr # NoError => (call[c].ret = NilUUID /\ call[c].err # NoError)
               /\ call[c].ret # NilUUID => (call[c].ret \in UUIDs /\ call[c].retErr = NoError)

\* both lookups have failed on a transport error
C10_Witness ==
    \E c, d \in Callers :
        /\ Returned(c, "getClusterID") /\ call[c].retErr \in TransportErrors
        /\ Returned(d, "getClusterInfraEnvID") /\ call[d].retErr \in TransportErrors

====
